---------------------------- MODULE Spec2Model ----------------------------
(***************************************************************************)
(* A model of the data-discovery engine of freva:                          *)
(*   - SolrFindFiles (evaluation_system/model/solr.py): the query          *)
(*     translator _to_solr_query, the paginated generator _search and the  *)
(*     facet aggregator _facets;                                           *)
(*   - BaselineFile (model/file.py): the naming-convention codec           *)
(*     from_path / to_path and the file-system generator search with its   *)
(*     latest-version resolution;                                          *)
(*   - run_plugin (freva/_plugin.py): the option handling in front of the  *)
(*     plugin manager.                                                     *)
(* Strings that the code takes apart (keys with the "_not_" suffix, paths, *)
(* file names) are modelled by their parts, and every conversion is        *)
(* computed the way the code computes it.                                  *)
(***************************************************************************)
EXTENDS Integers, Sequences, FiniteSets, TLC

VARIABLES
    backend,    \* the Solr core behind self.solr: the documents matching the query
    gen,        \* the _search generators: gen[g] is the frame of generator g
    qcall,      \* a direct call of _to_solr_query or _facets: arguments and result
    disk,       \* the file system below the baselines' root directories
    fsgen,      \* the BaselineFile.search generators: fsgen[g] is the frame of g
    codec,      \* a direct call of from_path / to_path: argument and results
    plugin      \* a call of freva.run_plugin: options, collaborator calls, outcome

vars == <<backend, gen, qcall, disk, fsgen, codec, plugin>>

(***************************************************************************)
(* Bounds of the model.                                                    *)
(***************************************************************************)
MaxDocs == 25       \* documents the backend holds for the paging specification
MaxBatch == 10      \* largest batch_size argument
MaxStart == 2       \* largest caller-supplied "start"
MaxOffset == 30     \* page requests are recorded up to this offset
MaxDocsQuery == 2   \* documents the backend holds where the constraint set varies

Gens == {1, 2}

(***************************************************************************)
(* Python dictionaries keep insertion order: a dict is a sequence of       *)
(* items [key, value] with distinct keys.  A key "name" or "name_not_" is  *)
(* [name, negated]; a value is a scalar or a list of scalars.              *)
(***************************************************************************)
Key(name) == [name |-> name, negated |-> FALSE]

NotKey(name) == [name |-> name, negated |-> TRUE]

Scalar(v) == [isList |-> FALSE, vals |-> <<v>>]

List(vs) == [isList |-> TRUE, vals |-> vs]

Item(k, v) == [key |-> k, value |-> v]

DictKeys(d) == {d[i].key : i \in 1..Len(d)}

DictHas(d, k) == k \in DictKeys(d)

DictGet(d, k) == d[CHOOSE i \in 1..Len(d) : d[i].key = k].value

\* d[k] = v : an existing key keeps its place, a new one goes last
DictSet(d, k, v) ==
    IF DictHas(d, k)
    THEN [i \in 1..Len(d) |-> IF d[i].key = k THEN Item(k, v) ELSE d[i]]
    ELSE Append(d, Item(k, v))

\* d.pop(k) / del d[k]
DictDel(d, k) == SelectSeq(d, LAMBDA it : it.key # k)

\* d.setdefault(k, v)
DictSetDefault(d, k, v) == IF DictHas(d, k) THEN d ELSE Append(d, Item(k, v))

(***************************************************************************)
(* SolrFindFiles._to_solr_query                                            *)
(***************************************************************************)
\* a slip in line 35: "sort" left out of the special keys
special_keys_without_sort == {"q", "fl", "fq", "facet.limit"}

special_keys == {"q", "fl", "fq", "facet.limit", "sort"}

IsSpecial(k) == ~k.negated /\ k.name \in special_keys

\* one "key:value" of a constraint; neg is the "-" put before the key
Term(neg, name, v) == [neg |-> neg, name |-> name, val |-> v]

\* a slip in lines 44-46: only the first value of a list makes a term
ConstraintFirstValue(k, value) ==
    [terms |-> IF value.vals = <<>> THEN <<>> ELSE <<Term(k.negated, k.name, value.vals[1])>>]

\* the constraint string: the terms, joined by " OR " when the value is a list
Constraint(k, value) ==
    [terms |-> [i \in 1..Len(value.vals) |-> Term(k.negated, k.name, value.vals[i])]]

\* the pair appended to params for one item of the dictionary
Param(it) ==
    IF IsSpecial(it.key)
    THEN [name |-> it.key.name, value |-> it.value]
    ELSE [name |-> "fq", value |-> Constraint(it.key, it.value)]

to_solr_query(partial_dict) == [i \in 1..Len(partial_dict) |-> Param(partial_dict[i])]

\* the values a query string carries under one parameter name
ParamValues(query, name) == {query[i].value : i \in {j \in 1..Len(query) : query[j].name = name}}


(***************************************************************************)
(* The backend: SolrCore.get_json against a core whose content does not    *)
(* change.  A request "select?..." is [facet, hasStart, start, rows,       *)
(* query]; the answer's "response" holds numFound, start and docs, the     *)
(* documents being the ranks start+1 .. start+rows of the matches in the   *)
(* order of the sort parameter, each with the fields that "fl" lists.      *)
(***************************************************************************)
Min(a, b) == IF a <= b THEN a ELSE b

Request(facet, hasStart, start, rows, query) ==
    [facet |-> facet, hasStart |-> hasStart, start |-> start, rows |-> rows, query |-> query]

FlHasFile(query) ==
    \E v \in ParamValues(query, "fl") : \E i \in 1..Len(v.vals) : v.vals[i] = "file"

Doc(rank, query) == [rank |-> rank, hasFile |-> FlHasFile(query)]

get_json(req) ==
    LET first == (IF req.hasStart THEN req.start ELSE 0) + 1
        last == Min(first - 1 + req.rows, backend.numFound)
        n == IF last >= first THEN last - first + 1 ELSE 0
    IN  [numFound |-> backend.numFound,
         start |-> first - 1,
         docs |-> [i \in 1..n |-> Doc(first + i - 1, req.query)]]

(***************************************************************************)
(* SolrFindFiles._search: a generator.  Its frame holds the locals of the  *)
(* function; out is the stream handed to the consumer so far and requests  *)
(* the backend requests issued so far.                                     *)
(***************************************************************************)
Digits == <<"0", "1", "2", "3", "4", "5", "6", "7", "8", "9">>

\* int(value) of a decimal string
int(v) == CHOOSE n \in 0..9 : Digits[n + 1] = v.vals[1]

\* lines 74-79: the dictionary handed to _to_solr_query
SearchDict(partial_dict) ==
    LET d1 == DictDel(partial_dict, Key("start"))
        d2 == DictSetDefault(d1, Key("q"), Scalar("*:*"))
        d3 == DictSetDefault(d2, Key("fl"), Scalar("file"))
        d4 == IF DictHas(d3, Key("text"))
              THEN DictSet(DictDel(d3, Key("text")), Key("q"), DictGet(d3, Key("text")))
              ELSE d3
    IN  DictSet(d4, Key("sort"), Scalar("file desc"))

\* line 74: offset = int(partial_dict.pop("start", "0"))
StartOffset(partial_dict) ==
    IF DictHas(partial_dict, Key("start"))
    THEN int(DictGet(partial_dict, Key("start")))
    ELSE int(Scalar("0"))

NoAnswer == [numFound |-> 0, start |-> 0, docs |-> <<>>]

Unused == [pc |-> "unused"]

\* whether a backend call has failed, and how much had been requested and yielded
NoFailure == [failed |-> FALSE, requests |-> 0, out |-> 0]

NewSearch(batch_size, retrieve_metadata, partial_dict) ==
    [pc |-> "start",
     call |-> [batch_size |-> batch_size, retrieve_metadata |-> retrieve_metadata,
               partial_dict |-> partial_dict],
     batch_size |-> batch_size,
     retrieve_metadata |-> retrieve_metadata,
     offset |-> 0,
     query |-> <<>>,
     results_to_visit |-> 0,
     answer |-> NoAnswer,
     iter |-> <<>>,
     out |-> <<>>,
     requests |-> <<>>,
     failure |-> NoFailure]

\* what the generator yields
DocItem(doc) == [kind |-> "doc", file |-> doc.rank]

MetaItem(response, reqno) ==
    [kind |-> "meta", numFound |-> response.numFound, start |-> response.start, reqno |-> reqno]

\* a slip in line 98: the offset is left where the answer put it
NextOffsetStuck(offset, batch_size) == offset

\* line 98: offset += batch_size
NextOffset(offset, batch_size) == offset + batch_size

\* a slip in lines 81, 85-87: the exception of get_json is caught and the request
\* is made again
BackendErrorRetried(frame) ==
    [frame EXCEPT !.failure = [failed |-> TRUE, requests |-> Len(frame.requests),
                               out |-> Len(frame.out)]]

\* lines 81, 85-87: get_json raises; no try statement is around the call, so the
\* exception leaves the generator, which is finished by it
BackendError(frame) ==
    [frame EXCEPT !.pc = "error",
                  !.failure = [failed |-> TRUE, requests |-> Len(frame.requests),
                               out |-> Len(frame.out)]]

\* lines 74-82: build the query, send the zero-row probe, read numFound
Probe(g) ==
    /\ gen[g].pc = "start"
    /\ LET query == to_solr_query(SearchDict(gen[g].call.partial_dict))
           req == Request(TRUE, FALSE, 0, 0, query)
       IN  gen' = [gen EXCEPT ![g].pc = "loop",
                              ![g].offset = StartOffset(gen[g].call.partial_dict),
                              ![g].query = query,
                              ![g].requests = Append(@, req),
                              ![g].answer = get_json(req),
                              ![g].results_to_visit = get_json(req).numFound]
    /\ UNCHANGED <<backend, qcall, disk, fsgen, codec, plugin>>

\* a slip in line 84: the whole batch is asked for, however few matches are left
PageRowsWholeBatch(batch_size, results_to_visit) == batch_size

\* line 84: batch_size = min(batch_size, results_to_visit)
PageRows(batch_size, results_to_visit) == Min(batch_size, results_to_visit)

\* line 81: the probe request fails
ProbeFails(g) ==
    /\ gen[g].pc = "start"
    /\ LET query == to_solr_query(SearchDict(gen[g].call.partial_dict))
           req == Request(TRUE, FALSE, 0, 0, query)
       IN  gen' = [gen EXCEPT ![g] =
                      BackendError([gen[g] EXCEPT
                                       !.offset = StartOffset(gen[g].call.partial_dict),
                                       !.query = query,
                                       !.requests = Append(@, req)])]
    /\ UNCHANGED <<backend, qcall, disk, fsgen, codec, plugin>>

\* lines 83-87: one more page is due; ask for min(batch_size, results_to_visit) rows
PageRequest(g) ==
    /\ gen[g].pc = "loop"
    /\ gen[g].results_to_visit > 0
    /\ gen[g].offset <= MaxOffset
    /\ LET rows == PageRows(gen[g].batch_size, gen[g].results_to_visit)
           req == Request(FALSE, TRUE, gen[g].offset, rows, gen[g].query)
       IN  gen' = [gen EXCEPT ![g].pc = "page",
                              ![g].batch_size = rows,
                              ![g].requests = Append(@, req),
                              ![g].answer = get_json(req)]
    /\ UNCHANGED <<backend, qcall, disk, fsgen, codec, plugin>>

\* lines 83-87 beyond MaxOffset, where no match is left (MaxOffset > MaxDocs): the
\* page is requested all the same; the request is no longer kept in the history
PageBeyond(g) ==
    /\ gen[g].pc = "loop"
    /\ gen[g].results_to_visit > 0
    /\ gen[g].offset > MaxOffset
    /\ LET rows == PageRows(gen[g].batch_size, gen[g].results_to_visit)
           req == Request(FALSE, TRUE, gen[g].offset, rows, gen[g].query)
       IN  gen' = [gen EXCEPT ![g].pc = "page",
                              ![g].batch_size = rows,
                              ![g].answer = get_json(req)]
    /\ UNCHANGED <<backend, qcall, disk, fsgen, codec, plugin>>

\* lines 85-87: the page request fails
PageFails(g) ==
    /\ gen[g].pc = "loop"
    /\ gen[g].results_to_visit > 0
    /\ gen[g].offset <= MaxOffset
    /\ LET rows == PageRows(gen[g].batch_size, gen[g].results_to_visit)
           req == Request(FALSE, TRUE, gen[g].offset, rows, gen[g].query)
       IN  gen' = [gen EXCEPT ![g] =
                      BackendError([gen[g] EXCEPT !.batch_size = rows,
                                                  !.requests = Append(@, req)])]
    /\ UNCHANGED <<backend, qcall, disk, fsgen, codec, plugin>>

\* lines 88-92: the metadata record, taken from the answer at hand
YieldMeta(g) ==
    /\ gen[g].pc = "page"
    /\ gen[g].retrieve_metadata
    /\ gen' = [gen EXCEPT ![g].out = Append(@, MetaItem(gen[g].answer, Len(gen[g].requests))),
                          ![g].retrieve_metadata = FALSE]
    /\ UNCHANGED <<backend, qcall, disk, fsgen, codec, plugin>>

\* lines 93-94: offset = answer start, iterate over the documents of the page
StartDocs(g) ==
    /\ gen[g].pc = "page"
    /\ ~gen[g].retrieve_metadata
    /\ gen' = [gen EXCEPT ![g].pc = "docs",
                          ![g].offset = gen[g].answer.start,
                          ![g].iter = gen[g].answer.docs]
    /\ UNCHANGED <<backend, qcall, disk, fsgen, codec, plugin>>

\* lines 95-97: yield item["file"]; results_to_visit -= 1
YieldDoc(g) ==
    /\ gen[g].pc = "docs"
    /\ gen[g].iter # <<>>
    /\ Head(gen[g].iter).hasFile
    /\ gen' = [gen EXCEPT ![g].out = Append(@, DocItem(Head(gen[g].iter))),
                          ![g].results_to_visit = @ - 1,
                          ![g].iter = Tail(@)]
    /\ UNCHANGED <<backend, qcall, disk, fsgen, codec, plugin>>

\* line 96: item["file"] of a document fetched without the file field: KeyError
DocKeyError(g) ==
    /\ gen[g].pc = "docs"
    /\ gen[g].iter # <<>>
    /\ ~Head(gen[g].iter).hasFile
    /\ gen' = [gen EXCEPT ![g].pc = "error"]
    /\ UNCHANGED <<backend, qcall, disk, fsgen, codec, plugin>>

\* a slip in line 98: the offset is kept on the SolrFindFiles object, which every
\* stream of that object shares
EndPageSharedOffset(g) ==
    /\ gen[g].pc = "docs"
    /\ gen[g].iter = <<>>
    /\ gen' = [h \in Gens |->
                  IF h = g
                  THEN [gen[g] EXCEPT !.pc = "loop",
                                      !.offset = NextOffset(gen[g].offset, gen[g].batch_size)]
                  ELSE IF gen[h].pc = "unused"
                  THEN gen[h]
                  ELSE [gen[h] EXCEPT !.offset = NextOffset(gen[g].offset, gen[g].batch_size)]]
    /\ UNCHANGED <<backend, qcall, disk, fsgen, codec, plugin>>

\* line 98: the page is used up (an offset beyond MaxOffset is not counted further)
EndPage(g) ==
    /\ gen[g].pc = "docs"
    /\ gen[g].iter = <<>>
    /\ gen' = [gen EXCEPT ![g].pc = "loop",
                          ![g].offset = IF gen[g].offset > MaxOffset
                                        THEN gen[g].offset
                                        ELSE NextOffset(gen[g].offset, gen[g].batch_size)]
    /\ UNCHANGED <<backend, qcall, disk, fsgen, codec, plugin>>

\* line 83: results_to_visit <= 0, the generator is exhausted
Finish(g) ==
    /\ gen[g].pc = "loop"
    /\ gen[g].results_to_visit <= 0
    /\ gen' = [gen EXCEPT ![g].pc = "done"]
    /\ UNCHANGED <<backend, qcall, disk, fsgen, codec, plugin>>

(***************************************************************************)
(* SolrFindFiles._facets and a direct call of _to_solr_query.              *)
(* The facets argument is None, a list of names, or a string given by its  *)
(* comma-separated parts (one part when it has no comma).                  *)
(***************************************************************************)
FacetsNone == [kind |-> "none", names |-> <<>>]

FacetsList(names) == [kind |-> "list", names |-> names]

FacetsStr(parts) == [kind |-> "str", names |-> parts]

\* the truth value Python gives the argument
Truthy(facets) ==
    CASE facets.kind = "none" -> FALSE
      [] facets.kind = "list" -> facets.names # <<>>
      [] facets.kind = "str" -> facets.names # <<"">>

\* lines 117-122: a non-empty string becomes the list of its parts
NormFacets(facets) ==
    IF Truthy(facets) /\ facets.kind # "list" THEN FacetsList(facets.names) ELSE facets

\* lines 124-127: q is the text constraint, or "*:*"
FacetDict(partial_dict) ==
    IF DictHas(partial_dict, Key("text"))
    THEN DictSet(DictDel(partial_dict, Key("text")), Key("q"), DictGet(partial_dict, Key("text")))
    ELSE DictSet(partial_dict, Key("q"), Scalar("*:*"))

\* the fields of the core's schema, as SolrCore.get_solr_fields lists them
get_solr_fields ==
    {"", "_version_", "file", "file_name", "file_no_version", "version", "timestamp",
     "creation_time", "time", "level", "source", "language", "project", "model", "variable"}

\* a slip in lines 133-147: "version" left out of the list
FacetDenylistWithoutVersion ==
    {"", "_version_", "file_no_version", "level", "timestamp", "time", "creation_time",
     "source", "file", "file_name"}

\* lines 133-147
FacetDenylist ==
    {"", "_version_", "file_no_version", "level", "timestamp", "time", "creation_time",
     "source", "version", "file", "file_name"}

\* lines 131-153: the facet.field parameters of the request
FacetFields(facets) ==
    IF facets.kind = "none"
    THEN get_solr_fields \ FacetDenylist
    ELSE {facets.names[i] : i \in 1..Len(facets.names)}

\* line 158: the request; facetParams says whether lines 149-153 added their string
FacetRequest(facets, latest_version, partial_dict) ==
    LET f == NormFacets(facets)
    IN  [facet |-> TRUE, hasStart |-> FALSE, start |-> 0, rows |-> 0,
         query |-> to_solr_query(FacetDict(partial_dict)),
         facetParams |-> (f.kind = "none" \/ Truthy(f)),
         facet_fields |-> IF f.kind = "none" \/ Truthy(f) THEN FacetFields(f) ELSE {},
         group |-> latest_version]

\* the backend's facet_counts.facet_fields: one entry per facet.field asked for
FacetAnswer(req) == req.facet_fields

\* lines 160-165: del answer["language"], a KeyError being ignored
FacetResult(answer) == answer \ {"language"}

NoCall == [op |-> "none", pc |-> "done"]

NewTranslate(partial_dict) ==
    [op |-> "to_solr_query", pc |-> "call", partial_dict |-> partial_dict, query |-> <<>>]

NewFacets(facets, latest_version, partial_dict) ==
    [op |-> "facets", pc |-> "call", facets |-> facets, latest_version |-> latest_version,
     partial_dict |-> partial_dict,
     request |-> FacetRequest(FacetsNone, FALSE, <<>>), result |-> {}]

\* _to_solr_query(partial_dict), called on its own
ToSolrQuery ==
    /\ qcall.op = "to_solr_query"
    /\ qcall.pc = "call"
    /\ qcall' = [qcall EXCEPT !.pc = "done", !.query = to_solr_query(qcall.partial_dict)]
    /\ UNCHANGED <<backend, gen, disk, fsgen, codec, plugin>>

\* _facets(latest_version, facets, **partial_dict), lines 116-165
Facets ==
    /\ qcall.op = "facets"
    /\ qcall.pc = "call"
    /\ LET req == FacetRequest(qcall.facets, qcall.latest_version, qcall.partial_dict)
       IN  qcall' = [qcall EXCEPT !.pc = "done",
                                  !.request = req,
                                  !.result = FacetResult(FacetAnswer(req))]
    /\ UNCHANGED <<backend, gen, disk, fsgen, codec, plugin>>

(***************************************************************************)
(* The constraint sets the callers supply: for every key of the pool, the  *)
(* key left out or given one of its values, in the order of the pool.      *)
(***************************************************************************)
Pool ==
    << [key |-> Key("q"), values |-> {Scalar("tas")}],
       [key |-> Key("text"), values |-> {Scalar("pr")}],
       [key |-> Key("fl"), values |-> {Scalar("variable")}],
       [key |-> Key("fq"), values |-> {Scalar("project:cmip5")}],
       [key |-> Key("facet.limit"), values |-> {Scalar("5")}],
       [key |-> Key("sort"), values |-> {Scalar("file asc")}],
       [key |-> Key("variable"), values |-> {Scalar("tas"), List(<<"tas", "pr">>), List(<<>>)}],
       [key |-> NotKey("variable"),
        values |-> {Scalar("pr"), List(<<"tas", "pr">>), List(<<>>)}] >>

RECURSIVE DictsFrom(_, _)
DictsFrom(pool, i) ==
    IF i > Len(pool)
    THEN {<<>>}
    ELSE LET rest == DictsFrom(pool, i + 1)
         IN  rest \cup {<<Item(pool[i].key, v)>> \o d : v \in pool[i].values, d \in rest}

Dicts == DictsFrom(Pool, 1)

StartDicts == {<<>>} \cup {<<Item(Key("start"), Scalar(Digits[n + 1]))>> : n \in 0..MaxStart}

FacetsArgs ==
    {FacetsNone, FacetsList(<<>>), FacetsList(<<"variable", "version">>), FacetsStr(<<"">>),
     FacetsStr(<<"model">>), FacetsStr(<<"variable", "language">>)}

(***************************************************************************)
(* Specifications of the Solr side.                                        *)
(*   SpecSearch: one _search stream, the paging inputs varied.             *)
(*   SpecQuery:  the constraint set varied, for _search, _facets and       *)
(*               _to_solr_query.                                           *)
(***************************************************************************)
NoDisk == {}

InitSearch ==
    /\ backend \in [numFound : 0..MaxDocs]
    /\ \E b \in 1..MaxBatch, m \in BOOLEAN, d \in StartDicts :
          gen = [g \in Gens |-> IF g = 1 THEN NewSearch(b, m, d) ELSE Unused]
    /\ qcall = NoCall
    /\ disk = NoDisk
    /\ fsgen = [g \in Gens |-> Unused]
    /\ codec = NoCall
    /\ plugin = NoCall

NextSearch ==
    \E g \in Gens :
        \/ Probe(g)
        \/ ProbeFails(g)
        \/ PageRequest(g)
        \/ PageFails(g)
        \/ YieldMeta(g)
        \/ StartDocs(g)
        \/ YieldDoc(g)
        \/ EndPage(g)
        \/ Finish(g)

SpecSearch == InitSearch /\ [][NextSearch]_vars

\* the stream consumed to its end: the pages beyond MaxOffset are requested too,
\* and the consumer goes on asking for the next item ("for f in _search(...)"), so
\* a generator that can take a step takes one
NextSearchFair == NextSearch \/ \E g \in Gens : PageBeyond(g)

SpecSearchFair == InitSearch /\ [][NextSearchFair]_vars /\ WF_vars(NextSearchFair)

InitQuery ==
    /\ backend \in [numFound : 0..MaxDocsQuery]
    /\ disk = NoDisk
    /\ fsgen = [g \in Gens |-> Unused]
    /\ codec = NoCall
    /\ plugin = NoCall
    /\ \/ /\ qcall = NoCall
          /\ \E b \in {1, MaxBatch}, m \in BOOLEAN, d \in Dicts :
                gen = [g \in Gens |-> IF g = 1 THEN NewSearch(b, m, d) ELSE Unused]
       \/ /\ gen = [g \in Gens |-> Unused]
          /\ \/ \E d \in Dicts : qcall = NewTranslate(d)
             \/ \E f \in FacetsArgs, l \in BOOLEAN, d \in Dicts : qcall = NewFacets(f, l, d)

NextQuery ==
    \/ NextSearch
    \/ \E g \in Gens : DocKeyError(g)
    \/ ToSolrQuery
    \/ Facets

SpecQuery == InitQuery /\ [][NextQuery]_vars

(***************************************************************************)
(* BaselineFile (model/file.py).  A string that the code splits on "_" is  *)
(* [tokens, nc]: its "_"-separated tokens, and whether ".nc" follows them  *)
(* (a file name).  A path is the sequence of its "/"-separated segments.   *)
(* None is the string without tokens.                                      *)
(***************************************************************************)
S(t) == [tokens |-> <<t>>, nc |-> FALSE]

FileName(tokens) == [tokens |-> tokens, nc |-> TRUE]

None == [tokens |-> <<>>, nc |-> FALSE]

\* lines 12-32; BASELINE[baseline_nr + 1]
BASELINE ==
    << [root_dir |-> <<S("gpfs_750"), S("projects"), S("CMIP5"), S("data")>>,
        parts_dir |-> <<"project", "product", "institute", "model", "experiment",
                        "time_frequency", "realm", "cmor_table", "ensemble", "version",
                        "variable", "file_name">>,
        parts_dataset |-> <<"project", "product", "institute", "model", "experiment",
                            "time_frequency", "realm", "cmor_table", "ensemble">>,
        versioned |-> TRUE,
        parts_versioned_dataset |-> <<"project", "product", "institute", "model", "experiment",
                                      "time_frequency", "realm", "cmor_table", "ensemble",
                                      "version">>,
        parts_file_name |-> <<"variable", "cmor_table", "model", "experiment", "ensemble", "time">>,
        defaults |-> <<Item("project", S("cmip5")), Item("institute", S("MPI-M")),
                       Item("model", S("MPI-ESM-LR"))>>],
       [root_dir |-> <<S("miklip"), S("global"), S("prod"), S("archive")>>,
        parts_dir |-> <<"project", "product", "institute", "model", "experiment",
                        "time_frequency", "realm", "variable", "ensemble", "file_name">>,
        parts_dataset |-> <<"project", "product", "institute", "model", "experiment",
                            "time_frequency", "realm", "variable", "ensemble">>,
        versioned |-> FALSE,
        parts_versioned_dataset |-> <<>>,
        parts_file_name |-> <<"variable", "cmor_table", "model", "experiment", "ensemble", "time">>,
        defaults |-> <<Item("project", S("baseline1")), Item("product", S("output")),
                       Item("institute", S("MPI-M")), Item("model", S("MPI-ESM-LR"))>>] >>

\* lines 133-139, for the baselines that exist
get_baseline(baseline_nr) == BASELINE[baseline_nr + 1]

SeqSet(s) == {s[i] : i \in 1..Len(s)}

IndexOf(s, x) == CHOOSE i \in 1..Len(s) : s[i] = x

\* os.path.realpath of a path without symbolic links: empty and "." segments go
realpath(path) == SelectSeq(path, LAMBDA seg : seg \notin {S(""), S(".")})

\* os.path.join(result, part): after a trailing "/" (an empty last segment) the
\* part takes the place of the empty segment
join(result, part) ==
    IF result # <<>> /\ result[Len(result)] = S("")
    THEN [result EXCEPT ![Len(result)] = part]
    ELSE Append(result, part)

\* lines 117-121: the tokens of the file name, None added for a missing time
FileNameTokens(bl, file_name) ==
    LET parts == [i \in 1..Len(file_name.tokens) |-> S(file_name.tokens[i])]
    IN  IF Len(parts) = Len(bl.parts_file_name) - 1 /\ S("r0i0p0") \in SeqSet(parts)
        THEN Append(parts, None)
        ELSE parts

\* lines 108-123: the directory values, then the file-name tokens written over them
DecodedParts(bl, segments) ==
    LET tokens == FileNameTokens(bl, segments[IndexOf(bl.parts_dir, "file_name")])
    IN  [k \in SeqSet(bl.parts_dir) \cup SeqSet(bl.parts_file_name) |->
            IF k \in SeqSet(bl.parts_file_name)
            THEN tokens[IndexOf(bl.parts_file_name, k)]
            ELSE segments[IndexOf(bl.parts_dir, k)]]

Failure(error) == [ok |-> FALSE, error |-> error]

\* a slip in line 99: only the length of the root is looked at
StartsWithAnyRoot(real, bl) == Len(real) > Len(bl.root_dir)

\* line 99: path.startswith(bl['root_dir'] + '/')
StartsWithRoot(real, bl) ==
    Len(real) > Len(bl.root_dir) /\ SubSeq(real, 1, Len(bl.root_dir)) = bl.root_dir

\* lines 93-127
from_path(path, baseline_nr) ==
    LET real == realpath(path)
        bl == get_baseline(baseline_nr)
        n == Len(bl.root_dir)
        segments == SubSeq(real, n + 1, Len(real))
    IN  IF ~StartsWithRoot(real, bl)
        THEN Failure("This file does not correspond to baseline")
        ELSE IF Len(segments) # Len(bl.parts_dir)
        THEN Failure("Can't parse this path")
        ELSE IF Len(FileNameTokens(bl, segments[Len(segments)])) < Len(bl.parts_file_name)
        THEN Failure("IndexError")
        ELSE [ok |-> TRUE,
              file |-> [baseline_nr |-> baseline_nr,
                        dict |-> [root_dir |-> bl.root_dir,
                                  parts |-> DecodedParts(bl, segments)]]]

RECURSIVE JoinAll(_, _)
\* os.path.join applied to one segment after the other
JoinAll(result, segments) ==
    IF segments = <<>>
    THEN result
    ELSE JoinAll(join(result, Head(segments)), Tail(segments))

\* lines 59-64
to_path(file) ==
    LET keys == get_baseline(file.baseline_nr).parts_dir
    IN  JoinAll(file.dict.root_dir, [i \in 1..Len(keys) |-> file.dict.parts[keys[i]]])

\* lines 80-82
is_versioned(file) == get_baseline(file.baseline_nr).versioned

\* lines 66-78, versioned = False: the values of parts_dataset, joined by "."
to_dataset(file) ==
    LET keys == get_baseline(file.baseline_nr).parts_dataset
    IN  [i \in 1..Len(keys) |-> file.dict.parts[keys[i]]]

\* lines 84-90
get_version(file) ==
    IF "version" \in DOMAIN file.dict.parts THEN file.dict.parts["version"] ELSE None

\* the characters of the version tokens, as code points
CharCodes ==
    ("v1" :> <<118, 49>>) @@ ("v2" :> <<118, 50>>) @@ ("v10" :> <<118, 49, 48>>)

\* a < b on Python strings: the first differing character decides, a proper prefix
\* is the smaller
LexLess(a, b) ==
    \E i \in 1..(Len(a) + 1) :
        /\ i <= Len(b)
        /\ \A j \in 1..(i - 1) : a[j] = b[j]
        /\ i <= Len(a) => a[i] < b[i]

\* lines 190, 193: the comparison of two versions
VersionLess(v, w) == LexLess(CharCodes[v.tokens[1]], CharCodes[w.tokens[1]])

(***************************************************************************)
(* BaselineFile.search: a generator.  glob.iglob hands out the paths of    *)
(* the disk that fit the pattern, in an order the file system decides.     *)
(***************************************************************************)
RECURSIVE DictUpdate(_, _)
\* d.update(e)
DictUpdate(d, e) ==
    IF e = <<>> THEN d ELSE DictUpdate(DictSet(d, Head(e).key, Head(e).value), Tail(e))

\* lines 158-159
FsSearchDict(bl, partial_dict) == DictUpdate(bl.defaults, partial_dict)

\* a slip in lines 162-163: a pinned version does not switch the filtering off
LatestWantedDespitePin(baseline_nr, latest_version, partial_dict) ==
    latest_version /\ ~(baseline_nr > 0)

\* lines 162-163
LatestWanted(baseline_nr, latest_version, partial_dict) ==
    latest_version /\ ~(baseline_nr > 0 \/ DictHas(partial_dict, "version"))

\* a slip in line 171: "?" (one character) is written for "*" (any name)
LocalPathOneCharacter(bl, search_dict) ==
    JoinAll(bl.root_dir,
            [i \in 1..Len(bl.parts_dir) |->
                IF DictHas(search_dict, bl.parts_dir[i])
                THEN DictGet(search_dict, bl.parts_dir[i])
                ELSE S("?")])

\* lines 165-171: a constrained segment gives its value, any other one "*"
LocalPath(bl, search_dict) ==
    JoinAll(bl.root_dir,
            [i \in 1..Len(bl.parts_dir) |->
                IF DictHas(search_dict, bl.parts_dir[i])
                THEN DictGet(search_dict, bl.parts_dir[i])
                ELSE S("*")])

\* a slip in lines 166-173: every key is deleted, a path segment or not
LeftoverNone(bl, search_dict) == SelectSeq(search_dict, LAMBDA it : FALSE)

\* lines 166-173: what is left of search_dict after the loop
Leftover(bl, search_dict) ==
    SelectSeq(search_dict, LAMBDA it : it.key \notin SeqSet(bl.parts_dir))

\* glob: a path fits when it has the pattern's segments, "*" standing for any one
Fits(path, pattern) ==
    /\ Len(path) = Len(pattern)
    /\ \A i \in 1..Len(pattern) : pattern[i] = S("*") \/ pattern[i] = path[i]

Glob(pattern) == {path \in disk : Fits(path, pattern)}

\* a slip in lines 190-195: a candidate of the stored version replaces the list
UpdateDatasetsNoTies(datasets, blf) ==
    LET ds == to_dataset(blf)
    IN  IF ~DictHas(datasets, ds)
           \/ ~VersionLess(get_version(blf), get_version(DictGet(datasets, ds)[1]))
        THEN DictSet(datasets, ds, <<blf>>)
        ELSE datasets

\* lines 189-195
UpdateDatasets(datasets, blf) ==
    LET ds == to_dataset(blf)
    IN  IF ~DictHas(datasets, ds)
           \/ VersionLess(get_version(DictGet(datasets, ds)[1]), get_version(blf))
        THEN DictSet(datasets, ds, <<blf>>)
        ELSE IF get_version(DictGet(datasets, ds)[1]) = get_version(blf)
        THEN DictSet(datasets, ds, Append(DictGet(datasets, ds), blf))
        ELSE datasets

RECURSIVE Flatten(_)
Flatten(lists) == IF lists = <<>> THEN <<>> ELSE Head(lists) \o Flatten(Tail(lists))

\* line 199: the lists of datasets.values(), in an order the dictionary decides
ValueOrders(datasets) ==
    LET n == Len(datasets)
        orders == {f \in [1..n -> 1..n] : \A i, j \in 1..n : f[i] = f[j] => i = j}
    IN  {Flatten([i \in 1..n |-> datasets[f[i]].value]) : f \in orders}

NoError == [kind |-> "none"]

NewFsSearch(baseline_nr, latest_version, partial_dict) ==
    [pc |-> "start",
     call |-> [baseline_nr |-> baseline_nr, latest_version |-> latest_version,
               partial_dict |-> partial_dict],
     latest_version |-> latest_version,
     local_path |-> <<>>,
     globbed |-> FALSE,
     todo |-> {},
     discovered |-> <<>>,
     datasets |-> <<>>,
     pending |-> <<>>,
     out |-> <<>>,
     err |-> NoError]

\* lines 157-178, leftover constraints: the exception
FsUnknownConstraint(g) ==
    /\ fsgen[g].pc = "start"
    /\ LET bl == get_baseline(fsgen[g].call.baseline_nr)
           left == Leftover(bl, FsSearchDict(bl, fsgen[g].call.partial_dict))
       IN  /\ left # <<>>
           /\ fsgen' = [fsgen EXCEPT
                  ![g].pc = "error",
                  ![g].latest_version = LatestWanted(fsgen[g].call.baseline_nr,
                                                     fsgen[g].call.latest_version,
                                                     fsgen[g].call.partial_dict),
                  ![g].err = [kind |-> "Unknown parameter(s)",
                              keys |-> [i \in 1..Len(left) |-> left[i].key],
                              valid |-> bl.parts_dir]]
    /\ UNCHANGED <<backend, gen, qcall, disk, codec, plugin>>

\* lines 157-183, no leftover constraint: the pattern is built and glob starts
FsStart(g) ==
    /\ fsgen[g].pc = "start"
    /\ LET bl == get_baseline(fsgen[g].call.baseline_nr)
           search_dict == FsSearchDict(bl, fsgen[g].call.partial_dict)
       IN  /\ Leftover(bl, search_dict) = <<>>
           /\ fsgen' = [fsgen EXCEPT
                  ![g].pc = "iter",
                  ![g].latest_version = LatestWanted(fsgen[g].call.baseline_nr,
                                                     fsgen[g].call.latest_version,
                                                     fsgen[g].call.partial_dict),
                  ![g].local_path = LocalPath(bl, search_dict),
                  ![g].globbed = TRUE,
                  ![g].todo = Glob(LocalPath(bl, search_dict))]
    /\ UNCHANGED <<backend, gen, qcall, disk, codec, plugin>>

\* lines 183-186: the next path decodes and is yielded at once
FsYield(g) ==
    /\ fsgen[g].pc = "iter"
    /\ ~fsgen[g].latest_version
    /\ \E path \in fsgen[g].todo :
          LET blf == from_path(path, fsgen[g].call.baseline_nr)
          IN  /\ blf.ok
              /\ fsgen' = [fsgen EXCEPT ![g].todo = @ \ {path},
                                        ![g].discovered = Append(@, path),
                                        ![g].out = Append(@, blf.file)]
    /\ UNCHANGED <<backend, gen, qcall, disk, codec, plugin>>

\* a slip in lines 185-195: the candidate is yielded as well as stored
FsBufferAndYield(g) ==
    /\ fsgen[g].pc = "iter"
    /\ fsgen[g].latest_version
    /\ \E path \in fsgen[g].todo :
          LET blf == from_path(path, fsgen[g].call.baseline_nr)
          IN  /\ blf.ok
              /\ fsgen' = [fsgen EXCEPT ![g].todo = @ \ {path},
                                        ![g].discovered = Append(@, path),
                                        ![g].out = Append(@, blf.file),
                                        ![g].datasets = UpdateDatasets(@, blf.file)]
    /\ UNCHANGED <<backend, gen, qcall, disk, codec, plugin>>

\* lines 183-195: the next path decodes and goes through the datasets dictionary
FsBuffer(g) ==
    /\ fsgen[g].pc = "iter"
    /\ fsgen[g].latest_version
    /\ \E path \in fsgen[g].todo :
          LET blf == from_path(path, fsgen[g].call.baseline_nr)
          IN  /\ blf.ok
              /\ fsgen' = [fsgen EXCEPT ![g].todo = @ \ {path},
                                        ![g].discovered = Append(@, path),
                                        ![g].datasets = UpdateDatasets(@, blf.file)]
    /\ UNCHANGED <<backend, gen, qcall, disk, codec, plugin>>

\* line 184: from_path raises, and the exception leaves the generator
FsDecodeError(g) ==
    /\ fsgen[g].pc = "iter"
    /\ \E path \in fsgen[g].todo :
          LET blf == from_path(path, fsgen[g].call.baseline_nr)
          IN  /\ ~blf.ok
              /\ fsgen' = [fsgen EXCEPT ![g].pc = "error",
                                        ![g].discovered = Append(@, path),
                                        ![g].err = [kind |-> blf.error]]
    /\ UNCHANGED <<backend, gen, qcall, disk, codec, plugin>>

\* lines 197-199: glob is used up; the buffered lists are put in a row
FsCollect(g) ==
    /\ fsgen[g].pc = "iter"
    /\ fsgen[g].latest_version
    /\ fsgen[g].todo = {}
    /\ \E pending \in ValueOrders(fsgen[g].datasets) :
          fsgen' = [fsgen EXCEPT ![g].pc = "emit", ![g].pending = pending]
    /\ UNCHANGED <<backend, gen, qcall, disk, codec, plugin>>

\* line 200
FsEmit(g) ==
    /\ fsgen[g].pc = "emit"
    /\ fsgen[g].pending # <<>>
    /\ fsgen' = [fsgen EXCEPT ![g].out = Append(@, Head(fsgen[g].pending)),
                              ![g].pending = Tail(@)]
    /\ UNCHANGED <<backend, gen, qcall, disk, codec, plugin>>

\* the end of the function body: the generator is exhausted
FsFinish(g) ==
    /\ \/ fsgen[g].pc = "iter" /\ ~fsgen[g].latest_version /\ fsgen[g].todo = {}
       \/ fsgen[g].pc = "emit" /\ fsgen[g].pending = <<>>
    /\ fsgen' = [fsgen EXCEPT ![g].pc = "done"]
    /\ UNCHANGED <<backend, gen, qcall, disk, codec, plugin>>

(***************************************************************************)
(* from_path and to_path called on their own: decode a path, encode the    *)
(* candidate, decode the result.                                           *)
(***************************************************************************)
NewCodec(path, baseline_nr) ==
    [op |-> "from_path", pc |-> "call", path |-> path, baseline_nr |-> baseline_nr,
     decoded |-> Failure("not called"), encoded |-> <<>>, redecoded |-> Failure("not called")]

\* c = BaselineFile.from_path(path, baseline_nr)
Decode ==
    /\ codec.op = "from_path"
    /\ codec.pc = "call"
    /\ LET c == from_path(codec.path, codec.baseline_nr)
       IN  codec' = [codec EXCEPT !.pc = IF c.ok THEN "decoded" ELSE "failed", !.decoded = c]
    /\ UNCHANGED <<backend, gen, qcall, disk, fsgen, plugin>>

\* c.to_path()
Encode ==
    /\ codec.op = "from_path"
    /\ codec.pc = "decoded"
    /\ codec' = [codec EXCEPT !.pc = "encoded", !.encoded = to_path(codec.decoded.file)]
    /\ UNCHANGED <<backend, gen, qcall, disk, fsgen, plugin>>

\* BaselineFile.from_path(c.to_path(), baseline_nr)
Redecode ==
    /\ codec.op = "from_path"
    /\ codec.pc = "encoded"
    /\ codec' = [codec EXCEPT !.pc = "done",
                              !.redecoded = from_path(codec.encoded, codec.baseline_nr)]
    /\ UNCHANGED <<backend, gen, qcall, disk, fsgen, plugin>>

(***************************************************************************)
(* The files and the calls of the file-system side.                        *)
(***************************************************************************)
MaxFiles == 3       \* files on the disk

ModelDirs == {"MPI-ESM-LR", "MIROC5"}

Versions == {"v2", "v10"}

\* the value of a directory segment of the archive
DirValue(baseline_nr, name, model, version) ==
    CASE name = "project" -> IF baseline_nr = 0 THEN "cmip5" ELSE "baseline1"
      [] name = "product" -> IF baseline_nr = 0 THEN "output1" ELSE "output"
      [] name = "institute" -> "MPI-M"
      [] name = "model" -> model
      [] name = "experiment" -> "historical"
      [] name = "time_frequency" -> "mon"
      [] name = "realm" -> "atmos"
      [] name = "cmor_table" -> "Amon"
      [] name = "ensemble" -> "r1i1p1"
      [] name = "version" -> version
      [] name = "variable" -> "tas"

\* the segments below the root: the directories, then the file name
Segments(baseline_nr, model, version, file_name) ==
    LET keys == get_baseline(baseline_nr).parts_dir
    IN  [i \in 1..Len(keys) |->
            IF keys[i] = "file_name"
            THEN file_name
            ELSE S(DirValue(baseline_nr, keys[i], model, version))]

ArchivePath(baseline_nr, model, version, file_name) ==
    get_baseline(baseline_nr).root_dir \o Segments(baseline_nr, model, version, file_name)

\* file names: two time ranges of one dataset, one naming another model than its
\* directory may, and one without its time range
FileA == FileName(<<"tas", "Amon", "MPI-ESM-LR", "historical", "r1i1p1", "200001-200012">>)

FileB == FileName(<<"tas", "Amon", "MPI-ESM-LR", "historical", "r1i1p1", "200101-200112">>)

FileC == FileName(<<"tas", "Amon", "MIROC5", "historical", "r1i1p1", "200001-200012">>)

FileShort == FileName(<<"tas", "Amon", "MPI-ESM-LR", "historical", "r1i1p1">>)

DiskUniverse(baseline_nr) ==
    {ArchivePath(baseline_nr, m, v, f) :
        m \in (IF baseline_nr = 0 THEN ModelDirs ELSE {"MPI-ESM-LR"}),
        v \in (IF baseline_nr = 0 THEN Versions ELSE {"v2"}),
        f \in {FileA, FileB, FileC}}
    \cup {ArchivePath(baseline_nr, "MPI-ESM-LR", "v2", FileShort)}

Disks(baseline_nr) == {d \in SUBSET DiskUniverse(baseline_nr) : Cardinality(d) <= MaxFiles}

FsPool ==
    << [key |-> "model", values |-> {S("MIROC5")}],
       [key |-> "version", values |-> {S("v2")}],
       [key |-> "modell", values |-> {S("MIROC5")}] >>

FsDicts == DictsFrom(FsPool, 1)

InitFile ==
    /\ backend = [numFound |-> 0]
    /\ gen = [g \in Gens |-> Unused]
    /\ qcall = NoCall
    /\ codec = NoCall
    /\ plugin = NoCall
    /\ \E b \in {0, 1}, l \in BOOLEAN, d \in FsDicts :
          /\ disk \in Disks(b)
          /\ fsgen = [g \in Gens |-> IF g = 1 THEN NewFsSearch(b, l, d) ELSE Unused]

NextFile ==
    \E g \in Gens :
        \/ FsUnknownConstraint(g)
        \/ FsStart(g)
        \/ FsYield(g)
        \/ FsBuffer(g)
        \/ FsDecodeError(g)
        \/ FsCollect(g)
        \/ FsEmit(g)
        \/ FsFinish(g)

SpecFile == InitFile /\ [][NextFile]_vars

\* file names for the codec: also a "no time" one, one token too many, an empty
\* first token
FileFx == FileName(<<"orog", "fx", "MPI-ESM-LR", "historical", "r0i0p0">>)

FileLong == FileName(<<"tas", "Amon", "MPI-ESM-LR", "historical", "r1i1p1", "200001-200012", "v2">>)

FileNoVariable == FileName(<<"", "Amon", "MPI-ESM-LR", "historical", "r1i1p1", "200001-200012">>)

FileFxShort == FileName(<<"orog", "fx", "MPI-ESM-LR", "r0i0p0">>)

CodecFileNames == {FileA, FileC, FileShort, FileFx, FileLong, FileNoVariable, FileFxShort}

\* paths handed to from_path: under the baseline's root or another one, with the
\* declared number of segments, one less or one more, or with a "." on the way
CodecPaths(baseline_nr) ==
    LET roots == {BASELINE[1].root_dir, BASELINE[2].root_dir, <<S("tmp")>>}
        segs == {Segments(baseline_nr, m, v, f) :
                    m \in ModelDirs, v \in Versions, f \in CodecFileNames}
    IN  {r \o s : r \in roots, s \in segs}
        \cup {r \o Tail(s) : r \in roots, s \in segs}
        \cup {r \o <<S("extra")>> \o s : r \in roots, s \in segs}
        \cup {r \o <<S(".")>> \o s : r \in roots, s \in segs}

InitCodec ==
    /\ backend = [numFound |-> 0]
    /\ gen = [g \in Gens |-> Unused]
    /\ qcall = NoCall
    /\ disk = NoDisk
    /\ fsgen = [g \in Gens |-> Unused]
    /\ plugin = NoCall
    /\ \E b \in {0, 1} : \E path \in CodecPaths(b) : codec = NewCodec(path, b)

NextCodec == Decode \/ Encode \/ Redecode

SpecCodec == InitCodec /\ [][NextCodec]_vars

(***************************************************************************)
(* freva.run_plugin (freva/_plugin.py).  plugin.opts are the keyword       *)
(* arguments, plugin.env what the collaborators answer, plugin.calls the   *)
(* calls made to the plugin manager and the database so far, plugin.ret    *)
(* the outcome: nothing yet, a returned pair, or an exception.             *)
(***************************************************************************)
\* save_config=None, and a file name given for it
NoConfigFile == "None"

ConfigFiles == {NoConfigFile, "tool.conf"}

\* scheduled_id: None, or an integer (0 is not None, but false)
ScheduledIds == {[given |-> FALSE, id |-> 0], [given |-> TRUE, id |-> 0], [given |-> TRUE, id |-> 7]}

PluginOpts ==
    [save : BOOLEAN, save_config : ConfigFiles, show_config : BOOLEAN, dry_run : BOOLEAN,
     scheduled_id : ScheduledIds, repo_version : BOOLEAN, batchmode : BOOLEAN,
     pull_request : BOOLEAN, tag : {"", "v1"}, caption : {"", "cap"},
     return_result : BOOLEAN]

\* exists: tool_name in pm.get_plugins(); error: pm.get_error_warning reports one;
\* external: the user is in the external group; pr_failed: the pull request fails
PluginEnvs == [exists : BOOLEAN, error : BOOLEAN, external : BOOLEAN, pr_failed : BOOLEAN]

NoReturn == [kind |-> "none", status |-> 0, result |-> ""]

Raised(exception) == [kind |-> "raise", status |-> 1, result |-> exception]

\* lines 92-95
return_value(value, result, return_result) ==
    [kind |-> "return", status |-> value, result |-> IF return_result THEN result ELSE ""]

\* line 211: return 0, ""
Returned(value, result) == [kind |-> "return", status |-> value, result |-> result]

NewPlugin(opts, env) ==
    [op |-> "run_plugin", pc |-> "call", opts |-> opts, env |-> env,
     save_config |-> opts.save_config, calls |-> <<>>, ret |-> NoReturn]

\* lines 54-76: what handle_pull_request returns, and whether it made the request
handle_pull_request(tag, env) ==
    IF tag = ""
    THEN [value |-> 1, result |-> "Missing required option --tag", created |-> FALSE]
    ELSE IF env.pr_failed
    THEN [value |-> 1, result |-> "The pull request failed", created |-> TRUE]
    ELSE [value |-> 0, result |-> "plugin is now updated", created |-> TRUE]

\* line 150 and lines 79-89: an unknown tool raises PluginNotFoundError
PluginCheck ==
    /\ plugin.op = "run_plugin"
    /\ plugin.pc = "call"
    /\ plugin' = IF plugin.env.exists
                 THEN [plugin EXCEPT !.pc = "checked"]
                 ELSE [plugin EXCEPT !.pc = "done", !.ret = Raised("PluginNotFoundError")]
    /\ UNCHANGED <<backend, gen, qcall, disk, fsgen, codec>>

\* lines 151-159: save_config made absolute; pull_request and repo_version return
PluginEarly ==
    /\ plugin.op = "run_plugin"
    /\ plugin.pc = "checked"
    /\ LET o == plugin.opts
           abs == IF o.save_config # NoConfigFile THEN "/home/user/tool.conf" ELSE NoConfigFile
           pr == handle_pull_request(o.tag, plugin.env)
       IN  plugin' =
             IF o.pull_request
             THEN [plugin EXCEPT !.pc = "done",
                                 !.save_config = abs,
                                 !.calls = IF pr.created
                                           THEN Append(@, "ToolPullRequest.objects.create")
                                           ELSE @,
                                 !.ret = return_value(pr.value, pr.result, TRUE)]
             ELSE IF o.repo_version
             THEN [plugin EXCEPT !.pc = "done",
                                 !.save_config = abs,
                                 !.calls = Append(@, "get_plugin_version"),
                                 !.ret = return_value(0, "Repository and version", TRUE)]
             ELSE [plugin EXCEPT !.pc = "config", !.save_config = abs]
    /\ UNCHANGED <<backend, gen, qcall, disk, fsgen, codec>>

\* lines 160-176: the arguments are parsed, the caption made, and the configuration
\* saved or, failing that, shown
PluginConfig ==
    /\ plugin.op = "run_plugin"
    /\ plugin.pc = "config"
    /\ LET o == plugin.opts
           c1 == IF ~o.scheduled_id.given THEN <<"parse_arguments">> ELSE <<>>
           c2 == IF o.caption # "" THEN <<"generate_caption">> ELSE <<>>
       IN  plugin' =
             IF plugin.save_config # NoConfigFile \/ o.save
             THEN [plugin EXCEPT !.pc = "run",
                                 !.calls = @ \o c1 \o c2 \o <<"write_setup">>]
             ELSE IF o.show_config
             THEN [plugin EXCEPT !.pc = "done",
                                 !.calls = @ \o c1 \o c2 \o <<"getCurrentConfig">>,
                                 !.ret = return_value(0, "current configuration", TRUE)]
             ELSE [plugin EXCEPT !.pc = "run", !.calls = @ \o c1 \o c2]
    /\ UNCHANGED <<backend, gen, qcall, disk, fsgen, codec>>

\* lines 177-184: a job scheduled in the history is run
PluginRunScheduled ==
    /\ plugin.op = "run_plugin"
    /\ plugin.pc = "run"
    /\ plugin.opts.scheduled_id.given /\ plugin.opts.scheduled_id.id # 0
    /\ ~plugin.opts.dry_run
    /\ plugin' = [plugin EXCEPT !.pc = "done",
                                !.calls = Append(@, "run_tool"),
                                !.ret = return_value(0, "out", plugin.opts.return_result)]
    /\ UNCHANGED <<backend, gen, qcall, disk, fsgen, codec>>

\* line 177 is false: the branch of lines 186-224 is taken
RunsNow(p) ==
    ~(p.opts.scheduled_id.given /\ p.opts.scheduled_id.id # 0 /\ ~p.opts.dry_run)

\* lines 186-211: a batch job is submitted
PluginSchedule ==
    /\ plugin.op = "run_plugin"
    /\ plugin.pc = "run"
    /\ RunsNow(plugin)
    /\ ~plugin.opts.dry_run /\ ~plugin.env.error
    /\ plugin.opts.batchmode \/ plugin.env.external
    /\ plugin' = [plugin EXCEPT !.pc = "done",
                                !.calls = @ \o <<"get_error_warning", "schedule_tool">>,
                                !.ret = Returned(0, "")]
    /\ UNCHANGED <<backend, gen, qcall, disk, fsgen, codec>>

\* lines 186-224: the tool is run and its results returned
PluginRunTool ==
    /\ plugin.op = "run_plugin"
    /\ plugin.pc = "run"
    /\ RunsNow(plugin)
    /\ ~plugin.opts.dry_run /\ ~plugin.env.error
    /\ ~(plugin.opts.batchmode \/ plugin.env.external)
    /\ plugin' = [plugin EXCEPT !.pc = "done",
                                !.calls = @ \o <<"get_error_warning", "run_tool">>,
                                !.ret = return_value(0, "results", plugin.opts.return_result)]
    /\ UNCHANGED <<backend, gen, qcall, disk, fsgen, codec>>

\* lines 186-224 with dry_run or an error: nothing is run, and line 224 reads the
\* local variable results, which was never bound
PluginNoRun ==
    /\ plugin.op = "run_plugin"
    /\ plugin.pc = "run"
    /\ RunsNow(plugin)
    /\ plugin.opts.dry_run \/ plugin.env.error
    /\ plugin' = [plugin EXCEPT !.pc = "done",
                                !.calls = Append(@, "get_error_warning"),
                                !.ret = Raised("UnboundLocalError")]
    /\ UNCHANGED <<backend, gen, qcall, disk, fsgen, codec>>

InitPlugin ==
    /\ backend = [numFound |-> 0]
    /\ gen = [g \in Gens |-> Unused]
    /\ qcall = NoCall
    /\ disk = NoDisk
    /\ fsgen = [g \in Gens |-> Unused]
    /\ codec = NoCall
    /\ \E opts \in PluginOpts, env \in PluginEnvs : plugin = NewPlugin(opts, env)

NextPlugin ==
    \/ PluginCheck
    \/ PluginEarly
    \/ PluginConfig
    \/ PluginRunScheduled
    \/ PluginSchedule
    \/ PluginRunTool
    \/ PluginNoRun

SpecPlugin == InitPlugin /\ [][NextPlugin]_vars

(***************************************************************************)
(* Two streams at once: two _search generators on one backend, or two      *)
(* BaselineFile.search generators on one disk.  A generator runs only      *)
(* while its consumer asks for the next item, so two generators consumed   *)
(* in turn interleave at their yields; here they interleave at every step, *)
(* which covers every order of consumption.                                *)
(***************************************************************************)
MaxDocsStreams == 3     \* matches of the query both streams send

MaxBatchStreams == 2    \* batch sizes of the two streams

MaxFilesStreams == 2    \* files on the disk both searches read

\* two versions of a file, a second file of the newer version, a name that does
\* not decode
StreamsUniverse ==
    {ArchivePath(0, "MPI-ESM-LR", "v2", FileA), ArchivePath(0, "MPI-ESM-LR", "v10", FileA),
     ArchivePath(0, "MPI-ESM-LR", "v10", FileB), ArchivePath(0, "MPI-ESM-LR", "v2", FileShort)}

InitStreams ==
    /\ qcall = NoCall
    /\ codec = NoCall
    /\ plugin = NoCall
    /\ \/ /\ backend \in [numFound : 0..MaxDocsStreams]
          /\ disk = NoDisk
          /\ fsgen = [g \in Gens |-> Unused]
          /\ \E b \in [Gens -> 1..MaxBatchStreams], m \in [Gens -> BOOLEAN] :
                gen = [g \in Gens |-> NewSearch(b[g], m[g], <<>>)]
       \/ /\ backend = [numFound |-> 0]
          /\ gen = [g \in Gens |-> Unused]
          /\ disk \in {d \in SUBSET StreamsUniverse : Cardinality(d) <= MaxFilesStreams}
          /\ \E l \in [Gens -> BOOLEAN], d \in [Gens -> FsDicts] :
                fsgen = [g \in Gens |-> NewFsSearch(0, l[g], d[g])]

NextStreams == NextSearch \/ NextFile

SpecStreams == InitStreams /\ [][NextStreams]_vars

Init == InitSearch \/ InitQuery \/ InitFile \/ InitCodec \/ InitPlugin \/ InitStreams

Next == NextQuery \/ NextFile \/ NextCodec \/ NextPlugin

Spec == Init /\ [][Next]_vars

(***************************************************************************)
(* Properties of the Solr side.                                            *)
(***************************************************************************)
DocsOf(out) == SelectSeq(out, LAMBDA x : x.kind = "doc")

MetasOf(out) == SelectSeq(out, LAMBDA x : x.kind = "meta")

PagesOf(requests) == SelectSeq(requests, LAMBDA r : r.hasStart)

Running(g) == gen[g].pc \notin {"unused", "start"}

\* C1: with the default start offset, against an unchanging backend of N matches,
\* the documents yielded so far are always the first matches in order, without
\* repetition; an exhausted stream has yielded all N of them; the first request is
\* the zero-row probe, every later one a page, and pages * B < N + B (for N = 25
\* and B = 10: at most three pages).
C1_PaginationComplete ==
    \A g \in Gens :
        (Running(g) /\ StartOffset(gen[g].call.partial_dict) = 0
                    /\ ~DictHas(gen[g].call.partial_dict, Key("fl")))
        => LET docs == DocsOf(gen[g].out)
               pages == Len(PagesOf(gen[g].requests))
           IN  /\ \A i \in 1..Len(docs) : docs[i].file = i
               /\ Len(docs) <= backend.numFound
               /\ gen[g].pc = "done" => Len(docs) = backend.numFound
               /\ ~gen[g].requests[1].hasStart /\ gen[g].requests[1].rows = 0
               /\ \A i \in 2..Len(gen[g].requests) : gen[g].requests[i].hasStart
               /\ pages > 0 => (pages - 1) * gen[g].call.batch_size < backend.numFound
               /\ (backend.numFound = 25 /\ gen[g].call.batch_size = 10) => pages <= 3

C1_Witness ==
    /\ gen[1].pc = "done"
    /\ backend.numFound = 25
    /\ gen[1].call.batch_size = 10
    /\ gen[1].call.partial_dict = <<>>
    /\ Len(DocsOf(gen[1].out)) = 25
    /\ Len(gen[1].requests) = 4

\* C3 (as claimed): a finished stream holds the metadata record exactly once, as its
\* first element, when _retrieve_metadata was set, whatever the number of matches,
\* and holds none when it was not set.
C3_MetadataOnceFirst ==
    \A g \in Gens :
        gen[g].pc = "done"
        => IF gen[g].call.retrieve_metadata
           THEN /\ Len(MetasOf(gen[g].out)) = 1
                /\ gen[g].out[1].kind = "meta"
           ELSE MetasOf(gen[g].out) = <<>>

\* C5 (as claimed): every backend request of a search carries the sort order the
\* caller supplied, and "file desc" only when the caller supplied none.
C5_SortAsRequested ==
    \A g \in Gens :
        Running(g)
        => \A i \in 1..Len(gen[g].requests) :
              ParamValues(gen[g].requests[i].query, "sort") =
                  {IF DictHas(gen[g].call.partial_dict, Key("sort"))
                   THEN DictGet(gen[g].call.partial_dict, Key("sort"))
                   ELSE Scalar("file desc")}

ReservedPassThrough == {"q", "fl", "fq", "facet.limit"}

IsClause(value) == "terms" \in DOMAIN value

\* the query carries the caller's value of every key of ReservedPassThrough as a
\* parameter of that name and makes no constraint on a field of that name
CarriesReserved(query, partial_dict) ==
    \A k \in ReservedPassThrough :
        DictHas(partial_dict, Key(k))
        => /\ DictGet(partial_dict, Key(k)) \in ParamValues(query, k)
           /\ k # "fq" => ParamValues(query, k) = {DictGet(partial_dict, Key(k))}
           /\ \A i \in 1..Len(query) :
                 IsClause(query[i].value)
                 => \A j \in 1..Len(query[i].value.terms) : query[i].value.terms[j].name # k

\* C8 (as claimed): the requests of search and of facets carry each reserved key the
\* caller supplied (q, fl, fq, facet.limit) with exactly the caller's value.
C8_ReservedVerbatim ==
    /\ \A g \in Gens :
          Running(g)
          => \A i \in 1..Len(gen[g].requests) :
                CarriesReserved(gen[g].requests[i].query, gen[g].call.partial_dict)
    /\ (qcall.op = "facets" /\ qcall.pc = "done")
       => CarriesReserved(qcall.request.query, qcall.partial_dict)

\* the names the specification reserves
ReservedNames == {"q", "fl", "fq", "facet.limit", "sort"}

OnlyReserved(partial_dict) ==
    \A k \in DictKeys(partial_dict) : ~k.negated /\ k.name \in ReservedNames

\* C9: the query _to_solr_query makes of a constraint set with reserved keys only
\* has one parameter per key, named by the key and holding the caller's value, and
\* no constraint clause.
C9_ReservedNoClauses ==
    (qcall.op = "to_solr_query" /\ qcall.pc = "done" /\ OnlyReserved(qcall.partial_dict))
    => /\ Len(qcall.query) = Len(qcall.partial_dict)
       /\ \A i \in 1..Len(qcall.query) :
             /\ ~IsClause(qcall.query[i].value)
             /\ qcall.query[i].name = qcall.partial_dict[i].key.name
             /\ qcall.query[i].value = qcall.partial_dict[i].value

C9_Witness ==
    /\ qcall.op = "to_solr_query"
    /\ qcall.pc = "done"
    /\ DictKeys(qcall.partial_dict) = {Key(k) : k \in ReservedNames}

(***************************************************************************)
(* What a constraint clause matches.  An indexed record gives each field a *)
(* set of values.  Solr's standard query parser makes every term written   *)
(* with "-" a prohibited one and every other term of an OR an optional     *)
(* one; a filter matches the records that no prohibited term hits and      *)
(* that, when the clause has optional terms, some optional term hits.      *)
(***************************************************************************)
FieldValues == {"tas", "pr", "ua"}

Records == [variable : SUBSET FieldValues]

\* a record without the field has no value a term on it could hit
TermHits(t, r) == t.name \in DOMAIN r /\ t.val \in r[t.name]

MatchesClause(c, r) ==
    LET prohibited == {i \in 1..Len(c.terms) : c.terms[i].neg}
        optional == {i \in 1..Len(c.terms) : ~c.terms[i].neg}
    IN  /\ \A i \in prohibited : ~TermHits(c.terms[i], r)
        /\ optional # {} => \E i \in optional : TermHits(c.terms[i], r)

\* C4 (as claimed): for every constraint f_not_ = v of a translated constraint set,
\* v a scalar or a list, the clause in the query matches a record iff the clause the
\* translator makes of f = v does not match it.
C4_NegationIsComplement ==
    (qcall.op = "to_solr_query" /\ qcall.pc = "done")
    => \A i \in 1..Len(qcall.partial_dict) :
          LET it == qcall.partial_dict[i]
              plain == to_solr_query(<<Item(Key(it.key.name), it.value)>>)[1]
          IN  it.key.negated
              => /\ qcall.query[i].name = "fq"
                 /\ plain.name = "fq"
                 /\ \A r \in Records :
                       MatchesClause(qcall.query[i].value, r) <=> ~MatchesClause(plain.value, r)

(***************************************************************************)
(* Properties of the file-system side.                                     *)
(***************************************************************************)
Count(seq, x) == Cardinality({i \in 1..Len(seq) : seq[i] = x})

Candidate(g, path) == from_path(path, fsgen[g].call.baseline_nr).file

\* the paths glob hands to the search of generator g
Matched(g) == Glob(fsgen[g].local_path)

\* no candidate of the same un-versioned dataset has a greater version
IsLatest(g, path) ==
    \A other \in Matched(g) :
        to_dataset(Candidate(g, other)) = to_dataset(Candidate(g, path))
        => ~VersionLess(get_version(Candidate(g, path)), get_version(Candidate(g, other)))

\* C2: with latest-version resolution active, whatever the order in which glob
\* hands out the paths, every candidate emitted has the greatest version seen for
\* its dataset key, and the exhausted stream holds every such candidate as often as
\* a path decodes to it (ties are all kept).
C2_LatestVersionExact ==
    \A g \in Gens :
        (fsgen[g].pc \in {"emit", "done"} /\ fsgen[g].latest_version)
        => /\ \A i \in 1..Len(fsgen[g].out) :
                 \E path \in Matched(g) :
                    Candidate(g, path) = fsgen[g].out[i] /\ IsLatest(g, path)
           /\ fsgen[g].pc = "done"
              => \A path \in Matched(g) :
                    Count(fsgen[g].out, Candidate(g, path)) =
                        Cardinality({q \in Matched(g) :
                                        Candidate(g, q) = Candidate(g, path) /\ IsLatest(g, q)})

C2_Witness ==
    /\ fsgen[1].pc = "done"
    /\ fsgen[1].latest_version
    /\ Cardinality(Matched(1)) = 3
    /\ Len(fsgen[1].out) = 2
    /\ to_dataset(fsgen[1].out[1]) = to_dataset(fsgen[1].out[2])
    /\ get_version(fsgen[1].out[1]) = S("v2")
    /\ get_version(fsgen[1].out[2]) = S("v2")

\* the directory segments of a path agree with every constraint of search_dict
Agrees(bl, path, search_dict) ==
    /\ Len(path) = Len(bl.root_dir) + Len(bl.parts_dir)
    /\ \A i \in 1..Len(bl.parts_dir) :
          DictHas(search_dict, bl.parts_dir[i])
          => path[Len(bl.root_dir) + i] = DictGet(search_dict, bl.parts_dir[i])

\* C6 (as claimed): without latest filtering, every candidate yielded has, for each
\* segment name the caller constrained, that attribute equal to the constrained
\* value, and an exhausted search has yielded every path of the disk whose
\* constrained segments agree with the constraints.
C6_ExactlyTheConstrained ==
    \A g \in Gens :
        (fsgen[g].pc \in {"iter", "done"} /\ ~fsgen[g].latest_version)
        => LET bl == get_baseline(fsgen[g].call.baseline_nr)
               search_dict == FsSearchDict(bl, fsgen[g].call.partial_dict)
           IN  /\ \A i \in 1..Len(fsgen[g].out) :
                     \A j \in 1..Len(fsgen[g].call.partial_dict) :
                        fsgen[g].out[i].dict.parts[fsgen[g].call.partial_dict[j].key]
                            = fsgen[g].call.partial_dict[j].value
               /\ fsgen[g].pc = "done"
                  => \A path \in disk :
                        Agrees(bl, path, search_dict)
                        => Candidate(g, path) \in SeqSet(fsgen[g].out)

\* the keys of the caller's constraints that name no path segment of the template
Offending(g) ==
    SelectSeq([i \in 1..Len(fsgen[g].call.partial_dict) |-> fsgen[g].call.partial_dict[i].key],
              LAMBDA k : k \notin SeqSet(get_baseline(fsgen[g].call.baseline_nr).parts_dir))

\* C7: a search given a constraint key that is no path segment of its template ends,
\* at its first step, in the unknown-parameter error, which names exactly the
\* offending keys and lists the template's segment names; glob is never called and
\* nothing is yielded.
C7_UnknownConstraintRejected ==
    \A g \in Gens :
        (fsgen[g].pc # "unused" /\ Offending(g) # <<>>)
        => /\ ~fsgen[g].globbed
           /\ fsgen[g].out = <<>>
           /\ fsgen[g].discovered = <<>>
           /\ fsgen[g].pc \in {"start", "error"}
           /\ fsgen[g].pc = "error"
              => /\ fsgen[g].err.kind = "Unknown parameter(s)"
                 /\ fsgen[g].err.keys = Offending(g)
                 /\ fsgen[g].err.valid = get_baseline(fsgen[g].call.baseline_nr).parts_dir

C7_Witness ==
    /\ fsgen[1].pc = "error"
    /\ fsgen[1].err.kind = "Unknown parameter(s)"
    /\ fsgen[1].err.keys = <<"modell">>
    /\ \E path \in disk :
          Fits(path, LocalPath(get_baseline(0), get_baseline(0).defaults))

\* C10 (as claimed): for every candidate c that from_path decodes, decoding
\* to_path(c) under the same template succeeds and gives a candidate equal to c.
C10_DecodeEncodeRoundTrip ==
    codec.pc = "done"
    => /\ codec.redecoded.ok
       /\ codec.redecoded.file = codec.decoded.file

\* the caller did not ask for the latest versions, or the template has no versions,
\* or the constraints pin a version
PassThroughCall(g) ==
    \/ ~fsgen[g].call.latest_version
    \/ ~get_baseline(fsgen[g].call.baseline_nr).versioned
    \/ DictHas(fsgen[g].call.partial_dict, "version")

\* C11: a search called without latest-version filtering, or on a template without
\* versions, or with a pinned version, yields the candidate of every path glob has
\* handed out, as from_path decoded it, in the order of discovery; an exhausted
\* search has yielded the candidate of every path that fits the pattern.
C11_PassThrough ==
    \A g \in Gens :
        (fsgen[g].pc \in {"iter", "done"} /\ PassThroughCall(g))
        => /\ fsgen[g].out =
                 [i \in 1..Len(fsgen[g].discovered) |-> Candidate(g, fsgen[g].discovered[i])]
           /\ fsgen[g].pc = "done" => SeqSet(fsgen[g].discovered) = Matched(g)

C11_Witness ==
    /\ fsgen[1].pc = "done"
    /\ fsgen[1].call.latest_version
    /\ fsgen[1].call.baseline_nr = 0
    /\ DictHas(fsgen[1].call.partial_dict, "version")
    /\ Len(fsgen[1].out) = 2
    /\ to_dataset(fsgen[1].out[1]) = to_dataset(fsgen[1].out[2])

(***************************************************************************)
(* Further properties of the Solr side.                                    *)
(***************************************************************************)
\* C12: once a backend call of _search has failed (the probe or a page), the
\* generator is finished with the error: the failed request stays its last one (it
\* is not made again, no other request follows) and the stream holds what it held
\* when the call was made.
C12_BackendFailureEndsStream ==
    \A g \in Gens :
        (Running(g) /\ gen[g].failure.failed)
        => /\ gen[g].pc = "error"
           /\ Len(gen[g].requests) = gen[g].failure.requests
           /\ Len(gen[g].out) = gen[g].failure.out

C12_Witness ==
    /\ gen[1].pc = "error"
    /\ gen[1].failure.failed
    /\ Len(gen[1].requests) = 3
    /\ Len(DocsOf(gen[1].out)) = gen[1].call.batch_size
    /\ gen[1].results_to_visit > 0

\* the fields the specification keeps out of a facet result: version bookkeeping,
\* timestamps, the raw file name, language
DeniedFields ==
    {"_version_", "file_no_version", "version", "timestamp", "creation_time", "time",
     "file", "file_name", "language"}

\* C14 (as claimed): the result of _facets holds no denied field, the list of facet
\* fields defaulted or supplied by the caller.
C14_NoDeniedFacet ==
    (qcall.op = "facets" /\ qcall.pc = "done") => qcall.result \cap DeniedFields = {}

\* C14 (amended): with the list of facet fields defaulted the result of _facets
\* holds no denied field; with any list the result is the backend's answer without
\* "language", whether the answer had it or not.
C14_DefaultFacetsDenied ==
    (qcall.op = "facets" /\ qcall.pc = "done")
    => /\ qcall.facets.kind = "none" => qcall.result \cap DeniedFields = {}
       /\ qcall.result = FacetAnswer(qcall.request) \ {"language"}

C14_Witness ==
    /\ qcall.op = "facets"
    /\ qcall.pc = "done"
    /\ qcall.facets.kind = "none"
    /\ "language" \in FacetAnswer(qcall.request)
    /\ qcall.result = {"project", "model", "variable"}

\* the records a query selects: Solr applies every fq filter, so the records that
\* all constraint clauses match
MatchesQuery(query, r) ==
    \A i \in 1..Len(query) : IsClause(query[i].value) => MatchesClause(query[i].value, r)

\* the clause a constraint of one field and one value makes on its own
SingleClause(name, v) == [terms |-> <<[neg |-> FALSE, name |-> name, val |-> v]>>]

\* C15: every constraint f = [a, b, ...] with a list of values makes one fq
\* parameter, whose clause matches a record iff the clause of f = a or of f = b ...
\* matches it; the query selects the records that the clauses of all its
\* constraints match.
C15_ListIsDisjunction ==
    (qcall.op = "to_solr_query" /\ qcall.pc = "done")
    => /\ Len(qcall.query) = Len(qcall.partial_dict)
       /\ \A i \in 1..Len(qcall.partial_dict) :
             LET it == qcall.partial_dict[i]
             IN  (~it.key.negated /\ it.key.name \notin ReservedNames
                  /\ it.value.isList /\ it.value.vals # <<>>)
                 => /\ qcall.query[i].name = "fq"
                    /\ IsClause(qcall.query[i].value)
                    /\ \A r \in Records :
                          /\ MatchesClause(qcall.query[i].value, r)
                             <=> \E j \in 1..Len(it.value.vals) :
                                    MatchesClause(SingleClause(it.key.name, it.value.vals[j]), r)
                          /\ MatchesQuery(qcall.query, r) => MatchesClause(qcall.query[i].value, r)
       /\ \A r \in Records :
             MatchesQuery(qcall.query, r)
             <=> \A i \in 1..Len(qcall.partial_dict) :
                    MatchesQuery(to_solr_query(<<qcall.partial_dict[i]>>), r)

C15_Witness ==
    /\ qcall.op = "to_solr_query"
    /\ qcall.pc = "done"
    /\ DictHas(qcall.partial_dict, Key("variable"))
    /\ DictGet(qcall.partial_dict, Key("variable")) = List(<<"tas", "pr">>)
    /\ DictHas(qcall.partial_dict, NotKey("variable"))
    /\ DictGet(qcall.partial_dict, NotKey("variable")) = Scalar("pr")
    /\ MatchesQuery(qcall.query, [variable |-> {"tas"}])
    /\ ~MatchesQuery(qcall.query, [variable |-> {"tas", "pr"}])
    /\ ~MatchesQuery(qcall.query, [variable |-> {"ua"}])

\* the documents of the page at hand that have been yielded
YieldedOfPage(g) ==
    IF gen[g].pc = "docs" THEN Len(gen[g].answer.docs) - Len(gen[g].iter) ELSE 0

\* C20: every page request of _search starts at the offset of the generator and
\* asks for min(batch size of the call, matches left to visit) rows; a page request
\* that follows another starts where that one started plus the rows that one asked
\* for, however many documents the backend returned; the matches left to visit are
\* the matches found less the documents yielded.
C20_PageRowsAndOffset ==
    \A g \in Gens :
        Running(g)
        => LET reqs == gen[g].requests
               last == reqs[Len(reqs)]
           IN  /\ \A i \in 2..Len(reqs) :
                     /\ reqs[i].hasStart
                     /\ reqs[i].rows >= 1
                     /\ reqs[i].rows <= gen[g].call.batch_size
                     /\ i > 2 => reqs[i].start = reqs[i - 1].start + reqs[i - 1].rows
               /\ Len(reqs) >= 2 => reqs[2].start = StartOffset(gen[g].call.partial_dict)
               /\ gen[g].pc \in {"page", "docs"}
                  => /\ last.start = gen[g].offset
                     /\ last.rows = Min(gen[g].call.batch_size,
                                        gen[g].results_to_visit + YieldedOfPage(g))
               /\ (gen[g].pc \in {"loop", "done"} /\ Len(reqs) >= 2)
                  => gen[g].offset = last.start + last.rows
               /\ gen[g].pc # "error"
                  => gen[g].results_to_visit = backend.numFound - Len(DocsOf(gen[g].out))

C20_Witness ==
    /\ gen[1].pc = "page"
    /\ Len(gen[1].requests) = 3
    /\ gen[1].requests[2].rows = 5
    /\ Len(DocsOf(gen[1].out)) = 3
    /\ gen[1].requests[3].start = gen[1].requests[2].start + 5
    /\ gen[1].requests[3].rows = 2

\* C21 (as claimed): every metadata record of a stream is made of the answer to the
\* zero-row probe, the first request of the search: it came with that request, and
\* its numFound and start are those of the probe's answer.
C21_MetadataFromProbe ==
    \A g \in Gens :
        Running(g)
        => \A i \in 1..Len(gen[g].out) :
              gen[g].out[i].kind = "meta"
              => /\ gen[g].out[i].reqno = 1
                 /\ ~gen[g].requests[gen[g].out[i].reqno].hasStart
                 /\ gen[g].out[i].numFound = get_json(gen[g].requests[1]).numFound
                 /\ gen[g].out[i].start = get_json(gen[g].requests[1]).start

\* C23 (as claimed): a stream that is consumed to its end does end, whatever the
\* batch size and the start offset: sooner or later the generator is exhausted (or
\* has been ended by a failure of the backend).
C23_StreamEnds == <>(\A g \in Gens : gen[g].pc \in {"unused", "done", "error"})

(***************************************************************************)
(* Further properties of the file-system side.                             *)
(***************************************************************************)
\* the segments of the resolved path that follow the root of the template
AfterRoot(path, bl) ==
    LET real == realpath(path)
    IN  SubSeq(real, Len(bl.root_dir) + 1, Len(real))

\* the resolved path begins with the root of the template and goes on after it
UnderRoot(path, bl) ==
    LET real == realpath(path)
    IN  /\ Len(real) > Len(bl.root_dir)
        /\ \A i \in 1..Len(bl.root_dir) : real[i] = bl.root_dir[i]

\* C13: from_path raises, and gives no candidate, for every path that (once
\* resolved, line 95) does not begin with the root directory of the template, and
\* for every path whose number of segments after the root is not the number of
\* segments the template declares.
C13_TemplateMismatchFails ==
    (codec.op = "from_path" /\ codec.pc # "call")
    => LET bl == get_baseline(codec.baseline_nr)
       IN  (~UnderRoot(codec.path, bl)
            \/ Len(AfterRoot(codec.path, bl)) # Len(bl.parts_dir))
           => /\ codec.pc = "failed"
              /\ ~codec.decoded.ok
              /\ "file" \notin DOMAIN codec.decoded

C13_Witness ==
    /\ codec.pc = "failed"
    /\ codec.baseline_nr = 0
    /\ SubSeq(codec.path, 1, 4) = BASELINE[2].root_dir
    /\ Len(codec.path) = 4 + Len(BASELINE[1].parts_dir)
    /\ codec.decoded.error = "This file does not correspond to baseline"

\* the glob pattern of generator g has one segment per path segment of the template
PatternSegment(g, i) ==
    fsgen[g].local_path[Len(get_baseline(fsgen[g].call.baseline_nr).root_dir) + i]

\* C17 (as claimed): once the pattern is built, every path segment of the template
\* for which the caller supplied no constraint is "*" in it.
C17_UnconstrainedIsWildcard ==
    \A g \in Gens :
        (fsgen[g].pc # "unused" /\ fsgen[g].globbed)
        => LET bl == get_baseline(fsgen[g].call.baseline_nr)
           IN  /\ Len(fsgen[g].local_path) = Len(bl.root_dir) + Len(bl.parts_dir)
               /\ \A i \in 1..Len(bl.parts_dir) :
                     ~DictHas(fsgen[g].call.partial_dict, bl.parts_dir[i])
                     => PatternSegment(g, i) = S("*")

\* C17 (amended): a segment constrained by the caller carries the caller's value, a
\* segment with a default of the template and no constraint of the caller carries
\* the default, every other segment is "*"; glob hands out the paths of the disk
\* that agree with the values, whatever they have in the "*" segments.
C17_WildcardUnlessDefault ==
    \A g \in Gens :
        (fsgen[g].pc # "unused" /\ fsgen[g].globbed)
        => LET bl == get_baseline(fsgen[g].call.baseline_nr)
               d == fsgen[g].call.partial_dict
           IN  /\ Len(fsgen[g].local_path) = Len(bl.root_dir) + Len(bl.parts_dir)
               /\ \A i \in 1..Len(bl.parts_dir) :
                     PatternSegment(g, i) =
                         IF DictHas(d, bl.parts_dir[i]) THEN DictGet(d, bl.parts_dir[i])
                         ELSE IF DictHas(bl.defaults, bl.parts_dir[i])
                         THEN DictGet(bl.defaults, bl.parts_dir[i])
                         ELSE S("*")
               /\ Matched(g) =
                     {path \in disk :
                         /\ Len(path) = Len(fsgen[g].local_path)
                         /\ SubSeq(path, 1, Len(bl.root_dir)) = bl.root_dir
                         /\ \A i \in 1..Len(bl.parts_dir) :
                               PatternSegment(g, i) # S("*")
                               => path[Len(bl.root_dir) + i] = PatternSegment(g, i)}
               /\ fsgen[g].pc = "iter" /\ fsgen[g].discovered = <<>>
                  => fsgen[g].todo = Matched(g)

C17_Witness ==
    /\ fsgen[1].pc = "iter"
    /\ fsgen[1].discovered = <<>>
    /\ fsgen[1].call.baseline_nr = 0
    /\ fsgen[1].call.partial_dict = <<>>
    /\ PatternSegment(1, 4) = S("MPI-ESM-LR")
    /\ PatternSegment(1, 10) = S("*")
    /\ \E p, q \in fsgen[1].todo : p[14] = S("v2") /\ q[14] = S("v10")

\* the "_"-separated tokens of the file name of a path
TokensOfFileName(path, bl) == AfterRoot(path, bl)[Len(bl.parts_dir)].tokens

\* C18 (as claimed): from_path decodes a path of the template's root and segment
\* count exactly when its file name has the declared number of tokens, or one less
\* with the token "r0i0p0" among them, the time then being absent; with more
\* tokens, or fewer and no "r0i0p0", it fails.
C18_TokenCountDecides ==
    (codec.op = "from_path" /\ codec.pc # "call")
    => LET bl == get_baseline(codec.baseline_nr)
       IN  (UnderRoot(codec.path, bl) /\ Len(AfterRoot(codec.path, bl)) = Len(bl.parts_dir))
           => LET tokens == TokensOfFileName(codec.path, bl)
                  full == Len(tokens) = Len(bl.parts_file_name)
                  fixed == /\ Len(tokens) = Len(bl.parts_file_name) - 1
                           /\ \E i \in 1..Len(tokens) : tokens[i] = "r0i0p0"
              IN  /\ codec.decoded.ok <=> (full \/ fixed)
                  /\ (codec.decoded.ok /\ fixed)
                     => codec.decoded.file.dict.parts["time"] = None

\* C19: a search with latest-version filtering in force (asked for, on a template
\* with versions, no version pinned) has yielded nothing as long as glob has paths
\* left to hand out, and nothing when it ended in an error; whatever it has yielded,
\* it yielded after every path that fits the pattern had been decoded.
C19_BufferedUntilDrained ==
    \A g \in Gens :
        (fsgen[g].pc # "unused" /\ ~PassThroughCall(g))
        => /\ fsgen[g].pc \in {"start", "iter", "error"} => fsgen[g].out = <<>>
           /\ fsgen[g].todo # {} => fsgen[g].out = <<>>
           /\ fsgen[g].out # <<>>
              => /\ SeqSet(fsgen[g].discovered) = Matched(g)
                 /\ \A path \in Matched(g) : from_path(path, fsgen[g].call.baseline_nr).ok

C19_Witness ==
    /\ fsgen[1].pc = "error"
    /\ ~PassThroughCall(1)
    /\ fsgen[1].err.kind = "IndexError"
    /\ Len(fsgen[1].discovered) = 3
    /\ fsgen[1].datasets # <<>>
    /\ fsgen[1].out = <<>>

\* C24 (as claimed): for every path that from_path decodes, to_path of the
\* candidate is that path again (as realpath resolves it), also when the tokens of
\* the file name differ from the directory segments of the same name.
C24_EncodeDecodeRoundTrip ==
    (codec.op = "from_path" /\ codec.pc \in {"encoded", "done"})
    => codec.encoded = realpath(codec.path)

(***************************************************************************)
(* Properties of streams consumed in turn.                                 *)
(***************************************************************************)
IsPrefix(s, t) == Len(s) <= Len(t) /\ \A i \in 1..Len(s) : s[i] = t[i]

\* what a _search stream with the default start offset yields when it is the only
\* one: the metadata record of its first page if asked for, then every match
StreamAlone(g) ==
    (IF gen[g].call.retrieve_metadata /\ backend.numFound > 0
     THEN <<MetaItem([numFound |-> backend.numFound, start |-> 0], 2)>>
     ELSE <<>>)
    \o [i \in 1..backend.numFound |-> DocItem(Doc(i, gen[g].query))]

\* the dataset buffer a search builds from the first n paths glob handed to it
RECURSIVE BufferAlone(_, _)
BufferAlone(g, n) ==
    IF n = 0
    THEN <<>>
    ELSE LET blf == from_path(fsgen[g].discovered[n], fsgen[g].call.baseline_nr)
         IN  IF blf.ok
             THEN UpdateDatasets(BufferAlone(g, n - 1), blf.file)
             ELSE BufferAlone(g, n - 1)

\* C22: of two streams advanced in any interleaving, each yields what it yields
\* alone.  A _search stream is always a prefix of the stream of its own call, and
\* all of it when exhausted; unless a backend request failed, its remaining count is
\* the matches less its own documents; between pages its offset is the number of
\* its own documents; its batch size is never above its own.  A BaselineFile.search stream works on the paths glob handed to it and
\* to no other: its buffer is built from them alone, and it yields their candidates
\* (at once, or the buffered ones after the last path).
C22_StreamsIndependent ==
    /\ \A g \in Gens :
          Running(g)
          => /\ IsPrefix(gen[g].out, StreamAlone(g))
             /\ gen[g].pc = "done" => gen[g].out = StreamAlone(g)
             /\ gen[g].pc # "error"
                => gen[g].results_to_visit = backend.numFound - Len(DocsOf(gen[g].out))
             /\ gen[g].pc = "loop" => gen[g].offset = Len(DocsOf(gen[g].out))
             /\ gen[g].batch_size <= gen[g].call.batch_size
    /\ \A g \in Gens :
          fsgen[g].pc \in {"iter", "emit", "done"}
          => /\ SeqSet(fsgen[g].discovered) \cup fsgen[g].todo = Matched(g)
             /\ Len(fsgen[g].discovered) + Cardinality(fsgen[g].todo) = Cardinality(Matched(g))
             /\ fsgen[g].latest_version
                => /\ fsgen[g].datasets = BufferAlone(g, Len(fsgen[g].discovered))
                   /\ fsgen[g].pc = "iter" => fsgen[g].out = <<>>
                   /\ fsgen[g].pc \in {"emit", "done"}
                      => fsgen[g].out \o fsgen[g].pending \in ValueOrders(fsgen[g].datasets)
             /\ ~fsgen[g].latest_version
                => fsgen[g].out = [i \in 1..Len(fsgen[g].discovered) |->
                                      Candidate(g, fsgen[g].discovered[i])]

\* both streams are half-way, the one with the smaller batch size further on
C22_Witness ==
    /\ gen[1].pc = "docs"
    /\ gen[2].pc = "docs"
    /\ gen[1].call.batch_size = 1
    /\ gen[2].call.batch_size = 2
    /\ gen[1].offset = 2
    /\ gen[2].offset = 0
    /\ Len(DocsOf(gen[1].out)) = 2
    /\ Len(DocsOf(gen[2].out)) = 1
    /\ backend.numFound = 3

(***************************************************************************)
(* Properties of run_plugin.                                               *)
(***************************************************************************)
\* C16 (as claimed): a call of run_plugin for an existing plugin with
\* show_config=True, whatever the other options, calls neither pm.run_tool nor
\* pm.schedule_tool, and (pull_request and repo_version aside, which answer before
\* the configuration is looked at) returns the current configuration.
C16_ShowConfigIsDryRun ==
    (plugin.op = "run_plugin" /\ plugin.opts.show_config /\ plugin.env.exists)
    => /\ "run_tool" \notin SeqSet(plugin.calls)
       /\ "schedule_tool" \notin SeqSet(plugin.calls)
       /\ (plugin.pc = "done" /\ ~plugin.opts.pull_request /\ ~plugin.opts.repo_version)
          => plugin.ret = return_value(0, "current configuration", TRUE)

\* C25 (as claimed): every call of run_plugin for an existing plugin returns a pair
\* (status, result), on every combination of options; where dry_run is set, or
\* pm.get_error_warning reports an error, no tool is run or scheduled and the
\* return is reached all the same.
C25_AlwaysReturnsPair ==
    (plugin.op = "run_plugin" /\ plugin.pc = "done" /\ plugin.env.exists)
    => /\ plugin.ret.kind = "return"
       /\ ("get_error_warning" \in SeqSet(plugin.calls)
           /\ (plugin.opts.dry_run \/ plugin.env.error))
          => /\ "run_tool" \notin SeqSet(plugin.calls)
             /\ "schedule_tool" \notin SeqSet(plugin.calls)

=============================================================================
